---- MODULE Spec2Model ----
(***************************************************************************)
(* A model of the Picarto stream notifier (src/main.py): the Notifier,     *)
(* its DiscordWebhook targets and their PicartoCreator records.  Time is   *)
(* the UTC wall clock read by datetime.now, counted in whole minutes and   *)
(* taken to be non-decreasing.  The type names that main.py uses in       *)
(* annotations and in typing.cast (PicartoCreatorConfig, DiscordRolePing,  *)
(* ...) are taken to be defined: they decide no behaviour.                 *)
(*                                                                         *)
(* JSON values are tagged records, so that a value of the wrong type or a  *)
(* missing key can be told from a well-formed one:                         *)
(*   scalar    [t |-> "str" | "int" | "missing", s |-> <the string>]       *)
(*   snowflake [t |-> "str" | "int" | "missing", n |-> <its number>]       *)
(*   ping      [t |-> "str" | "dict" | "other", s, role, user]             *)
(*   container [t |-> "seq" | "map" | "missing" | "other", items |-> <<>>] *)
(* A JSON object is the sequence of its (name, value) items in document    *)
(* order, which is the order Python's dict iterates them in.               *)
(***************************************************************************)
EXTENDS Integers, Sequences, FiniteSets, TLC

(***************************************************************************)
(* Program constants, in minutes.                                          *)
(***************************************************************************)
CONFIG_UPDATE_INTERVAL == 60

CONFIG_UPDATE_INTERVAL_ERROR == 5

CHECK_INTERVAL == 3

CHECK_INTERVAL_ERROR == 1

NOTIFY_INTERVAL == 30

\* the length limit of the 'roles' array of allowed_mentions
ROLES_ARRAY_MAX == 100

\* the length limit of the 'users' array of allowed_mentions
USERS_ARRAY_MAX == 100

(***************************************************************************)
(* Bounds of the model.                                                    *)
(***************************************************************************)
\* the run loop is explored while the clock is at most MaxTime
MaxTime == 10

\* the run loop started from a small configuration is explored up to MaxLongTime
MaxLongTime == 64

\* the method-level harness is explored while the clock is at most MaxApiTime
MaxApiTime == 1

\* the longest run of role pings given to a PicartoCreator
MaxRoles == 102

\* the most user pings in one list of a creator configuration
MaxUsers == 101

\* the largest snowflake id a ping list holds
MaxFlake == IF MaxRoles > MaxUsers THEN MaxRoles ELSE MaxUsers

(***************************************************************************)
(* str.casefold on the names the model uses.                               *)
(***************************************************************************)
Casefold(n) ==
    CASE n \in {"W", "w"} -> "w"
      [] n \in {"V", "v"} -> "v"
      [] n \in {"Foo", "foo", "FOO"} -> "foo"
      [] n \in {"Bar", "bar", "BAR"} -> "bar"
      [] OTHER -> n

(***************************************************************************)
(* Python dict operations on a function: d[k] = v, and d.pop(k, None).     *)
(***************************************************************************)
EmptyDict == [k \in {} |-> TRUE]

Put(d, k, v) == [x \in (DOMAIN d) \cup {k} |-> IF x = k THEN v ELSE d[x]]

Pop(d, k) == [x \in (DOMAIN d) \ {k} |-> d[x]]

PopAll(d, ks) == [x \in (DOMAIN d) \ ks |-> d[x]]

\* the keys of an insertion-ordered dict after d[k] = v
OrderPut(order, k) ==
    IF \E i \in 1..Len(order) : order[i] = k THEN order ELSE Append(order, k)

\* the keys of an insertion-ordered dict after the keys ks are popped
OrderPopAll(order, ks) == SelectSeq(order, LAMBDA k : k \notin ks)

(***************************************************************************)
(* JSON values.                                                            *)
(***************************************************************************)
Str(s) == [t |-> "str", s |-> s]

MissingKey == [t |-> "missing", s |-> ""]

IntScalar == [t |-> "int", s |-> ""]

NoFlake == [t |-> "missing", n |-> 0]

StrFlake(n) == [t |-> "str", n |-> n]

IntFlake(n) == [t |-> "int", n |-> n]

StrPing(s) == [t |-> "str", s |-> s, role |-> NoFlake, user |-> NoFlake]

RolePing(flake) == [t |-> "dict", s |-> "", role |-> flake, user |-> NoFlake]

UserPing(flake) == [t |-> "dict", s |-> "", role |-> NoFlake, user |-> flake]

\* a ping entry that is neither a string nor a dict, such as a number
OtherPing == [t |-> "other", s |-> "", role |-> NoFlake, user |-> NoFlake]

\* a dict with neither 'role' nor 'user'
KeylessPing == [t |-> "dict", s |-> "", role |-> NoFlake, user |-> NoFlake]

SeqOf(items) == [t |-> "seq", items |-> items]

MapOf(items) == [t |-> "map", items |-> items]

MissingContainer == [t |-> "missing", items |-> <<>>]

Item(name, cfg) == [name |-> name, cfg |-> cfg]

CreatorCfg(pings) == [pings |-> pings]

WebhookCfg(url, creators) == [url |-> url, creators |-> creators]

NotifierCfg(ua, email, webhooks) ==
    [user_agent |-> ua, email |-> email, webhooks |-> webhooks]

(***************************************************************************)
(* validate_creator_config, validate_webhook_config, validate_config.      *)
(***************************************************************************)
\* one pass of the loop over the pings: FALSE when the entry is an error
\* validate_ping that counts an unrecognized entry as a failure
validate_ping_strict(ping) ==
    IF ping.t = "dict" /\ ping.role.t # "missing"
    THEN ping.role.t = "str"
    ELSE IF ping.t = "dict" /\ ping.user.t # "missing"
    THEN ~(ping.user.t = "str")
    ELSE ping.t = "str" /\ ping.s \in {"@everyone", "everyone", "@here", "here"}

validate_ping(ping) ==
    IF ping.t = "dict" /\ ping.role.t # "missing"
    THEN ping.role.t = "str"
    ELSE IF ping.t = "dict" /\ ping.user.t # "missing"
    THEN ~(ping.user.t = "str")
    ELSE TRUE

validate_creator_config(config) ==
    /\ config.pings.t # "missing"
    /\ config.pings.t = "seq"
    /\ \A i \in 1..Len(config.pings.items) : validate_ping(config.pings.items[i])

validate_webhook_config(config) ==
    /\ config.url.t = "str"
    /\ config.creators.t # "missing"
    /\ config.creators.t = "map"
    /\ \A i \in 1..Len(config.creators.items) :
           validate_creator_config(config.creators.items[i].cfg)

validate_config(config) ==
    /\ config.user_agent.t = "str"
    /\ config.email.t = "str"
    /\ config.webhooks.t # "missing"
    /\ config.webhooks.t = "map"
    /\ \A i \in 1..Len(config.webhooks.items) :
           validate_webhook_config(config.webhooks.items[i].cfg)

(***************************************************************************)
(* PicartoCreator.                                                         *)
(***************************************************************************)
\* the name property setter
Creator_set_name(self, name) ==
    IF Casefold(name) # Casefold(self.name)
    THEN [self EXCEPT !.name = name, !.actual_name = ""]
    ELSE self

\* the name property getter: __actual_name or __name
Creator_name(self) ==
    IF self.actual_name # "" THEN self.actual_name ELSE self.name

\* the loop over config['pings'] of PicartoCreator.update_config, from the
\* i-th entry on: each pass adds to a set or raises a flag, so the passes
\* commute and the loop is the union of what its passes add
parse_pings(items, i, self) ==
    [self EXCEPT
        !.ping_roles = @ \cup
            {items[j].role : j \in {x \in i..Len(items) :
                items[x].t = "dict" /\ items[x].role.t # "missing"}},
        !.ping_users = @ \cup
            {items[j].user : j \in {x \in i..Len(items) :
                items[x].t = "dict" /\ items[x].role.t = "missing"
                                   /\ items[x].user.t # "missing"}},
        !.ping_everyone = @ \/
            \E j \in i..Len(items) :
                items[j].t = "str" /\ (items[j].s = "@everyone" \/ items[j].s = "everyone"),
        !.ping_here = @ \/
            \E j \in i..Len(items) :
                items[j].t = "str" /\ (items[j].s = "@here" \/ items[j].s = "here")]

\* Creator_update_config without the reset of the flags and the sets
Creator_update_config_merging(self, name, config) ==
    parse_pings(config.pings.items, 1, Creator_set_name(self, name))

Creator_update_config(self, name, config) ==
    LET named == Creator_set_name(self, name)
        cleared == [named EXCEPT !.ping_everyone = FALSE, !.ping_here = FALSE,
                                 !.ping_roles = {}, !.ping_users = {}]
    IN  parse_pings(config.pings.items, 1, cleared)

\* PicartoCreator.__init__
Creator_init(name, config) ==
    Creator_update_config(
        [name |-> name, actual_name |-> "", ping_everyone |-> FALSE,
         ping_here |-> FALSE, ping_roles |-> {}, ping_users |-> {}],
        name, config)

\* the side effect of create_webhook_post_json: data always has 'name' here
Creator_observe(self, data_name) == [self EXCEPT !.actual_name = data_name]

\* the mention set of a creator record
Mentions(c) == <<c.ping_everyone, c.ping_here, c.ping_roles, c.ping_users>>

\* the snowflakes a set can hold, in ascending order of id
FlakesAscending ==
    [i \in 1..(2 * MaxFlake) |->
        IF i % 2 = 1 THEN IntFlake((i + 1) \div 2) ELSE StrFlake(i \div 2)]

\* the same, in descending order of id
FlakesDescending ==
    [i \in 1..(2 * MaxFlake) |-> FlakesAscending[2 * MaxFlake + 1 - i]]

\* the iteration orders of a Python set that the model tells apart: the
\* language fixes none, and no order within a group is relied on
SetOrders == {FlakesAscending, FlakesDescending}

\* [x for x in flakes], iterated in the given order
Iterate(flakes, order) == SelectSeq(order, LAMBDA f : f \in flakes)

\* a token of the mention string: '@everyone', '@here', '<@&id>' or '<@id>'
Token(kind, flake) == [kind |-> kind, flake |-> flake]

\* the tokens joined by _create_message_content, in the order it appends them
Creator_create_message_content(self, order) ==
    (IF self.ping_everyone THEN <<Token("everyone", NoFlake)>> ELSE <<>>) \o
    (IF self.ping_here THEN <<Token("here", NoFlake)>> ELSE <<>>) \o
    [i \in 1..Len(Iterate(self.ping_roles, order)) |->
        Token("role", Iterate(self.ping_roles, order)[i])] \o
    [i \in 1..Len(Iterate(self.ping_users, order)) |->
        Token("user", Iterate(self.ping_users, order)[i])]

\* over_roles_cap with the limit itself counted as over it
over_roles_cap_inclusive(n) == n >= ROLES_ARRAY_MAX

\* the cap tests of _create_allowed_mentions_dict
over_roles_cap(n) == n > ROLES_ARRAY_MAX

over_users_cap(n) == n > USERS_ARRAY_MAX

\* _create_allowed_mentions_dict: `keys` are the keys the result holds
Creator_create_allowed_mentions_dict(self, order) ==
    [parse |->
        (IF self.ping_everyone \/ self.ping_here THEN <<"everyone">> ELSE <<>>) \o
        (IF over_roles_cap(Cardinality(self.ping_roles)) THEN <<"roles">> ELSE <<>>) \o
        (IF over_users_cap(Cardinality(self.ping_users)) THEN <<"user">> ELSE <<>>),
     keys |->
        {"parse"} \cup
        (IF ~over_roles_cap(Cardinality(self.ping_roles)) /\ Cardinality(self.ping_roles) > 0
         THEN {"roles"} ELSE {}) \cup
        (IF ~over_users_cap(Cardinality(self.ping_users)) /\ Cardinality(self.ping_users) > 0
         THEN {"users"} ELSE {}),
     roles |->
        IF ~over_roles_cap(Cardinality(self.ping_roles)) /\ Cardinality(self.ping_roles) > 0
        THEN Iterate(self.ping_roles, order) ELSE <<>>,
     users |->
        IF ~over_users_cap(Cardinality(self.ping_users)) /\ Cardinality(self.ping_users) > 0
        THEN Iterate(self.ping_users, order) ELSE <<>>]

(***************************************************************************)
(* DiscordWebhook.  A webhook is [name, url, creators, last_notified]: the *)
(* two dicts are functions from the case-folded creator key.  The debug    *)
(* log lines of a reconfiguration are kept as a set of events.             *)
(***************************************************************************)
Ev(kind, w, c) == [ev |-> kind, w |-> w, c |-> c]

\* one pass of the loop over config['creators'].items(): the creator under
\* `key` is updated in place or created, and `key` is no longer to be removed
apply_creator(st, wkey, key, c_name, c_config) ==
    IF key \in DOMAIN st.creators
    THEN [creators |-> Put(st.creators, key,
                           Creator_update_config(st.creators[key], c_name, c_config)),
          removed |-> st.removed \ {key},
          log |-> st.log \cup {Ev("creator_updated", wkey, key)}]
    ELSE [creators |-> Put(st.creators, key, Creator_init(c_name, c_config)),
          removed |-> st.removed \ {key},
          log |-> st.log \cup {Ev("creator_added", wkey, key)}]

\* creator_key without the case folding
creator_key_cased(c_name) == c_name

\* the key a configured creator is filed under
creator_key(c_name) == Casefold(c_name)

\* the loop over config['creators'].items(); st is [creators, removed, log]
RECURSIVE apply_creators(_, _, _, _)
apply_creators(items, i, st, wkey) ==
    IF i > Len(items) THEN st
    ELSE apply_creators(items, i + 1,
             apply_creator(st, wkey, creator_key(items[i].name),
                           items[i].name, items[i].cfg),
             wkey)

\* purge_removed that pops the records and leaves their timers
purge_removed_keeping_timers(st, last_notified, wkey) ==
    [creators |-> PopAll(st.creators, st.removed),
     last_notified |-> last_notified,
     log |-> st.log \cup
             {Ev("creator_removed", wkey, k) : k \in st.removed \cap DOMAIN st.creators}]

\* the loop over removed_creators: pop each record and its timer (the pop of
\* a timer is recorded as an event too, though the code logs nothing for it)
purge_removed(st, last_notified, wkey) ==
    [creators |-> PopAll(st.creators, st.removed),
     last_notified |-> PopAll(last_notified, st.removed),
     log |-> st.log \cup
             {Ev("creator_removed", wkey, k) : k \in st.removed \cap DOMAIN st.creators} \cup
             {Ev("timer_removed", wkey, k) : k \in st.removed \cap DOMAIN last_notified}]

\* the reconfigured webhook, from what purge_removed left
updated_webhook(name, url, out) ==
    [wh |-> [name |-> name, url |-> url,
             creators |-> out.creators, last_notified |-> out.last_notified],
     log |-> out.log]

\* DiscordWebhook.update_config: [wh, log], the webhook and its log events
Webhook_update_config(self, wkey, name, config) ==
    updated_webhook(name, config.url.s,
        purge_removed(
            apply_creators(config.creators.items, 1,
                [creators |-> self.creators,
                 removed |-> (DOMAIN self.creators) \cup (DOMAIN self.last_notified),
                 log |-> {}],
                wkey),
            self.last_notified, wkey))

\* DiscordWebhook.__init__
Webhook_init(wkey, name, config) ==
    Webhook_update_config(
        [name |-> name, url |-> "", creators |-> EmptyDict, last_notified |-> EmptyDict],
        wkey, name, config)

\* in_cooldown with the test left out: nothing is ever skipped
never_in_cooldown(last_notified, c_key, now_) == FALSE

\* the cooldown test of DiscordWebhook.notify: TRUE when the creator is skipped
in_cooldown(last_notified, c_key, now_) ==
    /\ c_key \in DOMAIN last_notified
    /\ last_notified[c_key] - now_ < NOTIFY_INTERVAL

\* after_failed_post when the failure ends the loop instead
abort_after_failed_post(online_creators, i) == Len(online_creators) + 1

\* what a failed POST does to the loop of DiscordWebhook.notify: the except
\* clause records the failure and the loop goes on with the next creator
after_failed_post(online_creators, i) == i + 1

\* posted with the timer stamped before the outcome of the POST is known
posted_stamping_failures(st, wkey, c_key, c_data, now_, ok) ==
    [wh |-> [st.wh EXCEPT
                !.creators = Put(@, c_key, Creator_observe(st.wh.creators[c_key], c_data)),
                !.last_notified = Put(@, c_key, now_)],
     success |-> st.success /\ ok,
     posts |-> Append(st.posts, [w |-> wkey, c |-> c_key, ok |-> ok])]

\* posted with the timer filed under the name Picarto reported
posted_keyed_by_name(st, wkey, c_key, c_data, now_, ok) ==
    [wh |-> [st.wh EXCEPT
                !.creators = Put(@, c_key, Creator_observe(st.wh.creators[c_key], c_data)),
                !.last_notified = IF ok THEN Put(@, c_data, now_) ELSE @],
     success |-> st.success /\ ok,
     posts |-> Append(st.posts, [w |-> wkey, c |-> c_key, ok |-> ok])]

\* the state of the notify loop after the POST for c_key was attempted:
\* the payload was built first, so the observed name is taken either way
posted(st, wkey, c_key, c_data, now_, ok) ==
    [wh |-> [st.wh EXCEPT
                !.creators = Put(@, c_key, Creator_observe(st.wh.creators[c_key], c_data)),
                !.last_notified = IF ok THEN Put(@, c_key, now_) ELSE @],
     success |-> st.success /\ ok,
     posts |-> Append(st.posts, [w |-> wkey, c |-> c_key, ok |-> ok])]

\* the loop of DiscordWebhook.notify over online_creators.items(); st is
\* [wh, success, posts]; `failing` are the creator keys whose POST fails
RECURSIVE notify_loop(_, _, _, _, _, _)
notify_loop(online_creators, i, st, wkey, now_, failing) ==
    IF i > Len(online_creators) THEN st
    ELSE IF online_creators[i].key \notin DOMAIN st.wh.creators
    THEN notify_loop(online_creators, i + 1, st, wkey, now_, failing)
    ELSE IF in_cooldown(st.wh.last_notified, online_creators[i].key, now_)
    THEN notify_loop(online_creators, i + 1, st, wkey, now_, failing)
    ELSE notify_loop(online_creators,
             IF online_creators[i].key \in failing
             THEN after_failed_post(online_creators, i) ELSE i + 1,
             posted(st, wkey, online_creators[i].key, online_creators[i].data, now_,
                    online_creators[i].key \notin failing),
             wkey, now_, failing)

\* DiscordWebhook.notify: [wh, success, posts]
Webhook_notify(self, wkey, online_creators, now_, failing) ==
    notify_loop(online_creators, 1,
                [wh |-> self, success |-> TRUE, posts |-> <<>>],
                wkey, now_, failing)

(***************************************************************************)
(* Notifier.  `self` is the record of the Notifier's attributes; the       *)
(* webhooks dict is the function `webhooks` with its insertion order       *)
(* `webhook_order`.  An attribute that is not set yet is <<>>, -1 or "".    *)
(***************************************************************************)
\* the webhook r.wh is stored under `key`, which is no longer to be removed
store_webhook(st, key, r, ev) ==
    [webhooks |-> Put(st.webhooks, key, r.wh),
     order |-> OrderPut(st.order, key),
     removed |-> st.removed \ {key},
     log |-> st.log \cup r.log \cup {Ev(ev, key, "")}]

\* apply_webhook that builds a new DiscordWebhook whether or not the key
\* is in the dict
apply_webhook_rebuilding(st, key, w_name, w_config) ==
    store_webhook(st, key, Webhook_init(key, w_name, w_config), "webhook_added")

\* one pass of the loop over config['webhooks'].items()
apply_webhook(st, key, w_name, w_config) ==
    IF key \in DOMAIN st.webhooks
    THEN store_webhook(st, key,
             Webhook_update_config(st.webhooks[key], key, w_name, w_config),
             "webhook_updated")
    ELSE store_webhook(st, key, Webhook_init(key, w_name, w_config), "webhook_added")

\* the key a configured webhook is filed under
webhook_key(w_name) == Casefold(w_name)

\* the loop over config['webhooks'].items(); st is [webhooks, order, removed, log]
RECURSIVE apply_webhooks(_, _, _)
apply_webhooks(items, i, st) ==
    IF i > Len(items) THEN st
    ELSE apply_webhooks(items, i + 1,
             apply_webhook(st, webhook_key(items[i].name), items[i].name, items[i].cfg))

\* the rebuilt tracked_creators: a later webhook's name for a key wins
track_creators(webhooks, order) ==
    [k \in UNION {DOMAIN webhooks[w].creators : w \in DOMAIN webhooks} |->
        Creator_name(webhooks[order[
            CHOOSE i \in 1..Len(order) :
                /\ k \in DOMAIN webhooks[order[i]].creators
                /\ \A j \in (i + 1)..Len(order) :
                       k \notin DOMAIN webhooks[order[j]].creators]].creators[k])]

\* reject_config when the fetched document was stored before it was validated
reject_config_storing(self, fetch) ==
    [self EXCEPT !.config = fetch,
                 !.config_update_interval = CONFIG_UPDATE_INTERVAL_ERROR]

\* what a rejected fetch leaves of the Notifier
reject_config(self, fetch) ==
    [self EXCEPT !.config_update_interval = CONFIG_UPDATE_INTERVAL_ERROR]

\* the Notifier once the webhooks dict is reconciled: the loop over
\* removed_webhooks, and the attributes set on the way
applied_config(new_config, now_, webhooks2, order2, log2) ==
    [ok |-> TRUE,
     self |-> [config |-> <<new_config>>,
               last_config_update |-> now_,
               config_update_interval |-> CONFIG_UPDATE_INTERVAL,
               user_agent |-> new_config.user_agent.s,
               email |-> new_config.email.s,
               webhooks |-> webhooks2,
               webhook_order |-> order2,
               tracked_creators |-> track_creators(webhooks2, order2)],
     log |-> log2]

purge_webhooks(new_config, now_, st) ==
    applied_config(new_config, now_,
        PopAll(st.webhooks, st.removed), OrderPopAll(st.order, st.removed),
        st.log \cup {Ev("webhook_removed", k, "") : k \in st.removed})

\* the application of a validated configuration
apply_config(self, new_config, now_) ==
    purge_webhooks(new_config, now_,
        apply_webhooks(new_config.webhooks.items, 1,
            [webhooks |-> self.webhooks, order |-> self.webhook_order,
             removed |-> DOMAIN self.webhooks, log |-> {}]))

\* Notifier.update_config: [ok, self, log]; fetch is <<>> (the request
\* failed) or <<the JSON document>>
Notifier_update_config(self, fetch, now_) ==
    IF fetch = <<>>
    THEN [ok |-> FALSE, self |-> reject_config(self, fetch), log |-> {}]
    ELSE IF ~validate_config(fetch[1])
    THEN [ok |-> FALSE, self |-> reject_config(self, fetch), log |-> {}]
    ELSE apply_config(self, fetch[1], now_)

\* online_key without the case folding
online_key_cased(creator_name) == creator_name

\* the key a liveness entry is filed under
online_key(creator_name) == Casefold(creator_name)

\* online_creators[key] = data on an insertion-ordered dict
online_put(online_creators, key, data) ==
    IF \E i \in 1..Len(online_creators) : online_creators[i].key = key
    THEN [i \in 1..Len(online_creators) |->
             IF online_creators[i].key = key
             THEN [key |-> key, data |-> data] ELSE online_creators[i]]
    ELSE Append(online_creators, [key |-> key, data |-> data])

\* build_online when a malformed entry ends the loop
RECURSIVE build_online_aborting(_, _, _)
build_online_aborting(items, i, st) ==
    IF i > Len(items) THEN st
    ELSE IF items[i].t # "map" \/ items[i].name.t # "str"
    THEN [st EXCEPT !.success = FALSE]
    ELSE build_online_aborting(items, i + 1,
             [st EXCEPT !.online =
                 online_put(@, Casefold(items[i].name.s), items[i].name.s)])

\* the loop over the liveness response; st is [online, success]
RECURSIVE build_online(_, _, _)
build_online(items, i, st) ==
    IF i > Len(items) THEN st
    ELSE IF items[i].t # "map"
    THEN build_online(items, i + 1, [st EXCEPT !.success = FALSE])
    ELSE IF items[i].name.t = "missing"
    THEN build_online(items, i + 1, [st EXCEPT !.success = FALSE])
    ELSE IF items[i].name.t # "str"
    THEN build_online(items, i + 1, [st EXCEPT !.success = FALSE])
    ELSE build_online(items, i + 1,
             [st EXCEPT !.online =
                 online_put(@, online_key(items[i].name.s), items[i].name.s)])

\* what a webhook whose notify returned false does to the fan-out loop
after_failed_notify(order, i) == i + 1

\* notified with the result of notify dropped
notified_ignoring_result(st, key, r) ==
    [webhooks |-> Put(st.webhooks, key, r.wh),
     success |-> st.success,
     posts |-> st.posts \o r.posts]

\* the fan-out state after the webhook under `key` returned r from notify
notified(st, key, r) ==
    [webhooks |-> Put(st.webhooks, key, r.wh),
     success |-> st.success /\ r.success,
     posts |-> st.posts \o r.posts]

\* webhook.notify(online_creators) for the i-th webhook of the dict
notify_at(order, i, st, online_creators, now_, fails) ==
    Webhook_notify(st.webhooks[order[i]], order[i], online_creators, now_,
                   {p[2] : p \in {q \in fails : q[1] = order[i]}})

\* the loop over self.webhooks.values(); st is [webhooks, success, posts];
\* `fails` are the (webhook key, creator key) pairs whose POST fails
RECURSIVE fan_out(_, _, _, _, _, _)
fan_out(order, i, st, online_creators, now_, fails) ==
    IF i > Len(order) THEN st
    ELSE fan_out(order,
             IF notify_at(order, i, st, online_creators, now_, fails).success
             THEN i + 1 ELSE after_failed_notify(order, i),
             notified(st, order[i], notify_at(order, i, st, online_creators, now_, fails)),
             online_creators, now_, fails)

\* the fan-out of the online map that build_online made
fan_out_built(self, built, now_, fails) ==
    fan_out(self.webhook_order, 1,
            [webhooks |-> self.webhooks, success |-> built.success, posts |-> <<>>],
            built.online, now_, fails)

\* poll without the test of the response's shape: what it wraps is read
poll_unchecked(self, response, now_, fails) ==
    fan_out_built(self,
        build_online(response.items, 1, [online |-> <<>>, success |-> TRUE]),
        now_, fails)

\* the liveness part of a tick: the fetch, the shape checks, the fan-out.
\* response is [t |-> "error" | "other" | "seq", items]
poll(self, response, now_, fails) ==
    IF response.t # "seq"
    THEN [webhooks |-> self.webhooks, success |-> FALSE, posts |-> <<>>]
    ELSE fan_out_built(self,
             build_online(response.items, 1, [online |-> <<>>, success |-> TRUE]),
             now_, fails)

\* the test that starts a reconfiguration at the top of a tick
config_update_due(self, now_) ==
    self.last_config_update - now_ >= self.config_update_interval

\* the end of a tick: the choice of the sleep interval
tick_result(upd, due, polled) ==
    [self |-> [upd.self EXCEPT !.webhooks = polled.webhooks],
     reloaded |-> due,
     update_ok |-> upd.ok,
     log |-> upd.log,
     success |-> polled.success,
     posts |-> polled.posts,
     sleep |-> IF polled.success THEN CHECK_INTERVAL ELSE CHECK_INTERVAL_ERROR]

\* a tick after its reconfiguration step returned upd
tick_after_update(upd, due, now_, response, fails) ==
    tick_result(upd, due, poll(upd.self, response, now_, fails))

\* one pass of the loop of Notifier.run, up to the sleep
run_tick(self, now_, fetch, response, fails) ==
    tick_after_update(
        IF config_update_due(self, now_)
        THEN Notifier_update_config(self, fetch, now_)
        ELSE [ok |-> TRUE, self |-> self, log |-> {}],
        config_update_due(self, now_), now_, response, fails)

(***************************************************************************)
(* The inputs: configuration documents, liveness responses, failing POSTs. *)
(***************************************************************************)
Pings99 == SeqOf(<<RolePing(StrFlake(99))>>)

PingsEveryone == SeqOf(<<StrPing("@everyone")>>)

PingsHere == SeqOf(<<StrPing("@here"), UserPing(IntFlake(7))>>)

WebhooksCfg(items) == NotifierCfg(Str("agent"), Str("mail"), MapOf(items))

\* two webhooks, the first with two creators, both tracking "foo"
CfgBoth ==
    WebhooksCfg(<<
        Item("W", WebhookCfg(Str("url1"), MapOf(<<
            Item("Foo", CreatorCfg(Pings99)),
            Item("Bar", CreatorCfg(PingsEveryone))>>))),
        Item("V", WebhookCfg(Str("url2"), MapOf(<<Item("foo", CreatorCfg(PingsHere))>>)))>>)

\* one webhook, two creators
CfgOne ==
    WebhooksCfg(<<Item("W", WebhookCfg(Str("url1"), MapOf(<<
        Item("Foo", CreatorCfg(Pings99)),
        Item("Bar", CreatorCfg(PingsEveryone))>>)))>>)

\* two webhooks tracking the same creator
CfgTwo ==
    WebhooksCfg(<<
        Item("W", WebhookCfg(Str("url1"), MapOf(<<Item("Foo", CreatorCfg(Pings99))>>))),
        Item("V", WebhookCfg(Str("url2"), MapOf(<<Item("foo", CreatorCfg(PingsHere))>>)))>>)

\* one webhook, one creator
CfgSmall ==
    WebhooksCfg(<<Item("W", WebhookCfg(Str("url1"), MapOf(<<
        Item("Foo", CreatorCfg(Pings99))>>)))>>)

\* CfgSmall with the webhook and the creator spelled in another case
CfgRecased ==
    WebhooksCfg(<<Item("w", WebhookCfg(Str("url3"), MapOf(<<
        Item("FOO", CreatorCfg(PingsHere))>>)))>>)

\* two webhook names that collide under case folding
CfgCollide ==
    WebhooksCfg(<<
        Item("W", WebhookCfg(Str("url1"), MapOf(<<Item("Foo", CreatorCfg(Pings99))>>))),
        Item("w", WebhookCfg(Str("url1"), MapOf(<<Item("Bar", CreatorCfg(Pings99))>>)))>>)

\* a role id given as an integer
CfgIntRole ==
    WebhooksCfg(<<Item("W", WebhookCfg(Str("url1"), MapOf(<<
        Item("Bar", CreatorCfg(SeqOf(<<RolePing(IntFlake(99))>>)))>>)))>>)

\* a user id given as a decimal string
CfgStrUser ==
    WebhooksCfg(<<Item("W", WebhookCfg(Str("url1"), MapOf(<<
        Item("Foo", CreatorCfg(SeqOf(<<UserPing(StrFlake(7))>>)))>>)))>>)

\* no 'email'
CfgNoEmail == NotifierCfg(Str("agent"), MissingKey, MapOf(<<>>))

FetchFailed == <<>>

RunFetches == {FetchFailed, <<CfgBoth>>, <<CfgIntRole>>, <<CfgNoEmail>>}

LongRunFetches == {FetchFailed, <<CfgSmall>>}

ApiFetches ==
    {FetchFailed, <<CfgOne>>, <<CfgTwo>>, <<CfgSmall>>, <<CfgRecased>>,
     <<CfgCollide>>, <<CfgIntRole>>, <<CfgStrUser>>, <<CfgNoEmail>>}

Live(name) == [t |-> "map", name |-> Str(name)]

LiveNoName == [t |-> "map", name |-> MissingKey]

LiveNotMapping == [t |-> "other", name |-> MissingKey]

LiveIntName == [t |-> "map", name |-> IntScalar]

ResponseError == [t |-> "error", items |-> <<>>]

\* a response that is no Sequence, such as a JSON object: its items are the
\* entries it wraps
ResponseNotSequence == [t |-> "other", items |-> <<Live("foo")>>]

Responses ==
    {ResponseError, ResponseNotSequence, SeqOf(<<>>),
     SeqOf(<<Live("foo")>>), SeqOf(<<Live("Bar"), LiveNoName, Live("foo")>>),
     SeqOf(<<LiveNotMapping, Live("foo"), LiveIntName>>)}

LongRunResponses == {ResponseError, SeqOf(<<>>), SeqOf(<<Live("foo")>>)}

\* the (webhook key, creator key) pairs a POST can be made for
TrackedPairs(self) ==
    {<<w, c>> : w \in DOMAIN self.webhooks, c \in {"foo", "bar"}} \cap
    UNION {{<<w, c>> : c \in DOMAIN self.webhooks[w].creators} :
              w \in DOMAIN self.webhooks}

\* the POSTs that fail in one fan-out: none, one of them, or all
FailSets(self) ==
    {{}} \cup {{p} : p \in TrackedPairs(self)} \cup {TrackedPairs(self)}

(***************************************************************************)
(* The state.  The Notifier's attributes, the clock, the position of       *)
(* Notifier.run, and a record of what the last operation did: its kind     *)
(* `op`, the result and the log events of its update_config, the liveness  *)
(* response it read, the POSTs it attempted, the interval it slept, and    *)
(* the POSTs that failed in the poll before it.                            *)
(***************************************************************************)
VARIABLES config, last_config_update, config_update_interval, user_agent, email,
          webhooks, webhook_order, tracked_creators,
          now, pc, exit_code,
          op, update_ok, log, reloaded, response, posts, tick_ok, slept, prev_failed

\* the outcome of the last configuration fetch; and one PicartoCreator driven
\* on its own: the record, the ping list last applied to it, the mention set
\* that list replaced, and the message content and allowed_mentions of the
\* last POST body built from it (each <<>> until there is one)
VARIABLES fetched, creator, ping_list, replaced, content, allowed_mentions

\* the (webhook key, creator key) pairs that were notified and then removed
\* by a reconfiguration (dropped), and those of them that a later
\* reconfiguration listed again and that were not reported live since
\* (fresh); and the fresh pairs that the last poll reported live (served)
VARIABLES readded

\* one CaselessDict driven on its own: its _store, the key and the value of
\* the last operation with the original-case key the store held for that
\* key before it, what the operation returned or raised, and the mapping a
\* comparison was made with
VARIABLES store, arg, got, other

dict_vars == <<store, arg, got, other>>

\* one DiscordServer of the legacy script driven on its own: its
\* _seenCreators, the online list and the POSTs of the last
\* update_online_creators call, and whether a POST ever raised
VARIABLES seen, online, legacy_posts, post_failed

legacy_vars == <<seen, online, legacy_posts, post_failed>>

creator_vars == <<creator, ping_list, replaced, content, allowed_mentions>>

notifier_vars ==
    <<config, last_config_update, config_update_interval, user_agent, email,
      webhooks, webhook_order, tracked_creators>>

vars ==
    <<config, last_config_update, config_update_interval, user_agent, email,
      webhooks, webhook_order, tracked_creators, now, pc, exit_code,
      op, update_ok, log, reloaded, response, posts, tick_ok, slept, prev_failed,
      fetched, creator, ping_list, replaced, content, allowed_mentions, readded,
      store, arg, got, other, seen, online, legacy_posts, post_failed>>

\* the variables of the Notifier and of the harnesses around it
main_vars ==
    <<notifier_vars, now, pc, exit_code, update_ok, log, reloaded, response,
      posts, tick_ok, slept, prev_failed, fetched, readded, creator_vars>>

Self ==
    [config |-> config, last_config_update |-> last_config_update,
     config_update_interval |-> config_update_interval,
     user_agent |-> user_agent, email |-> email, webhooks |-> webhooks,
     webhook_order |-> webhook_order, tracked_creators |-> tracked_creators]

SetSelf(self) ==
    /\ config' = self.config
    /\ last_config_update' = self.last_config_update
    /\ config_update_interval' = self.config_update_interval
    /\ user_agent' = self.user_agent
    /\ email' = self.email
    /\ webhooks' = self.webhooks
    /\ webhook_order' = self.webhook_order
    /\ tracked_creators' = self.tracked_creators

\* the (webhook key, creator key) pairs of the POSTs of `ps`, and of its failed ones
Attempted(ps) == {<<ps[i].w, ps[i].c>> : i \in 1..Len(ps)}

Failed(ps) == {<<ps[i].w, ps[i].c>> : i \in {j \in 1..Len(ps) : ~ps[j].ok}}

\* Notifier.__init__
Notifier_init ==
    /\ config = <<>>
    /\ last_config_update = -1
    /\ config_update_interval = CONFIG_UPDATE_INTERVAL
    /\ user_agent = ""
    /\ email = ""
    /\ webhooks = EmptyDict
    /\ webhook_order = <<>>
    /\ tracked_creators = EmptyDict

NothingDone ==
    /\ op = "none"
    /\ update_ok = TRUE
    /\ log = {}
    /\ reloaded = FALSE
    /\ response = ResponseError
    /\ posts = <<>>
    /\ tick_ok = TRUE
    /\ slept = 0
    /\ prev_failed = {}
    /\ fetched = FetchFailed
    /\ readded = [dropped |-> {}, fresh |-> {}, served |-> {}]
    /\ store = EmptyDict
    /\ arg = [key |-> "", value |-> "", was |-> ""]
    /\ got = "None"
    /\ other = <<>>
    /\ seen = <<>>
    /\ online = <<>>
    /\ legacy_posts = <<>>
    /\ post_failed = FALSE

\* no PicartoCreator is driven on its own
NoCreatorYet ==
    /\ creator = <<>>
    /\ ping_list = <<>>
    /\ replaced = <<>>
    /\ content = <<>>
    /\ allowed_mentions = <<>>

\* what an operation that did no poll leaves of the record of the last poll
NoPoll ==
    /\ reloaded' = FALSE
    /\ response' = ResponseError
    /\ posts' = <<>>
    /\ tick_ok' = TRUE
    /\ slept' = 0
    /\ prev_failed' = {}

\* the process before Notifier.run is called
Init ==
    /\ Notifier_init
    /\ now = 0
    /\ pc = "start"
    /\ exit_code = 0
    /\ NothingDone
    /\ NoCreatorYet

\* Start when a failed first update_config is only logged
Start_continuing(fetches) ==
    /\ pc = "start"
    /\ \E fetch \in fetches :
          \E r \in {Notifier_update_config(Self, fetch, now)} :
              /\ SetSelf(r.self)
              /\ pc' = "loop"
              /\ exit_code' = 0
              /\ op' = "update_config"
              /\ update_ok' = r.ok
              /\ log' = r.log
              /\ fetched' = fetch
    /\ NoPoll
    /\ UNCHANGED <<now, creator_vars, readded,
                   dict_vars, legacy_vars>>

\* the first update_config of Notifier.run: exit(-1) when it fails
Start(fetches) ==
    /\ pc = "start"
    /\ \E fetch \in fetches :
          \E r \in {Notifier_update_config(Self, fetch, now)} :
              /\ SetSelf(r.self)
              /\ pc' = IF r.ok THEN "loop" ELSE "exited"
              /\ exit_code' = IF r.ok THEN 0 ELSE 255
              /\ op' = "update_config"
              /\ update_ok' = r.ok
              /\ log' = r.log
              /\ fetched' = fetch
    /\ NoPoll
    /\ UNCHANGED <<now, creator_vars, readded,
                   dict_vars, legacy_vars>>

\* the configuration fetch is made, and its outcome matters, only when due
FetchesAt(self, now_, fetches) ==
    IF config_update_due(self, now_) THEN fetches ELSE {FetchFailed}

\* one pass of the loop of Notifier.run, with its sleep
TickUpTo(limit, fetches, responses) ==
    /\ pc = "loop"
    /\ now + CHECK_INTERVAL <= limit
    /\ \E fetch \in FetchesAt(Self, now, fetches), resp \in responses,
          fails \in FailSets(Self) :
          \E r \in {run_tick(Self, now, fetch, resp, fails)} :
              /\ SetSelf(r.self)
              /\ op' = "tick"
              /\ update_ok' = r.update_ok
              /\ log' = r.log
              /\ reloaded' = r.reloaded
              /\ response' = resp
              /\ posts' = r.posts
              /\ tick_ok' = r.success
              /\ slept' = r.sleep
              /\ now' = now + r.sleep
              /\ fetched' = fetch
    /\ prev_failed' = Failed(posts)
    /\ UNCHANGED <<pc, exit_code, creator_vars, readded,
                   dict_vars, legacy_vars>>

RunStart == Start(RunFetches)

Tick == TickUpTo(MaxTime, RunFetches, Responses)

Next == RunStart \/ Tick

Spec == Init /\ [][Next]_vars

LongRunStart == Start(LongRunFetches)

LongTick == TickUpTo(MaxLongTime, LongRunFetches, LongRunResponses)

LongNext == LongRunStart \/ LongTick

SpecLong == Init /\ [][LongNext]_vars

(***************************************************************************)
(* The same objects driven method by method: update_config and the         *)
(* liveness fan-out are called in any order while the clock advances.      *)
(***************************************************************************)
\* the pairs whose creator record a reconfiguration removed while the
\* webhook held a timer for it
Dropped(before, events) ==
    UNION {{<<w, k>> : k \in {c \in DOMAIN before[w].last_notified :
                                  Ev("creator_removed", w, c) \in events}} :
           w \in DOMAIN before}

\* the pairs a webhook map tracks
Tracked(whs) == UNION {{<<w, k>> : k \in DOMAIN whs[w].creators} : w \in DOMAIN whs}

\* the re-added pairs once a reconfiguration with the result r was applied
\* to the webhooks `before`: a pair dropped by an earlier one for which it
\* created a record becomes fresh, a fresh pair it leaves untracked is
\* dropped again
fresh_after_update(hist, before, r) ==
    (hist.fresh \cup
     {p \in hist.dropped : Ev("creator_added", p[1], p[2]) \in r.log})
        \cap Tracked(r.self.webhooks)

readded_after_update(hist, before, r) ==
    IF ~r.ok THEN [hist EXCEPT !.served = {}]
    ELSE [dropped |-> (hist.dropped \cup hist.fresh \cup Dropped(before, r.log))
                          \ fresh_after_update(hist, before, r),
          fresh |-> fresh_after_update(hist, before, r),
          served |-> {}]

\* the re-added pairs once a poll got the response: a pair whose creator a
\* valid entry reports had its next notify cycle
reported_live(resp, k) ==
    /\ resp.t = "seq"
    /\ \E i \in 1..Len(resp.items) :
          /\ resp.items[i].t = "map"
          /\ resp.items[i].name.t = "str"
          /\ online_key(resp.items[i].name.s) = k

readded_after_poll(hist, resp) ==
    [hist EXCEPT !.fresh = {p \in @ : ~reported_live(resp, p[2])},
                 !.served = {p \in hist.fresh : reported_live(resp, p[2])}]

ApiInit ==
    /\ Notifier_init
    /\ now = 0
    /\ pc = "api"
    /\ exit_code = 0
    /\ NothingDone
    /\ NoCreatorYet

ApiUpdateConfig ==
    /\ pc = "api"
    /\ \E fetch \in ApiFetches :
          \E r \in {Notifier_update_config(Self, fetch, now)} :
              /\ SetSelf(r.self)
              /\ op' = "update_config"
              /\ update_ok' = r.ok
              /\ log' = r.log
              /\ fetched' = fetch
              /\ readded' = readded_after_update(readded, webhooks, r)
    /\ NoPoll
    /\ UNCHANGED <<now, pc, exit_code, creator_vars,
                   dict_vars, legacy_vars>>

ApiPoll ==
    /\ pc = "api"
    /\ \E resp \in Responses, fails \in FailSets(Self) :
          \E r \in {poll(Self, resp, now, fails)} :
              /\ webhooks' = r.webhooks
              /\ op' = "poll"
              /\ response' = resp
              /\ posts' = r.posts
              /\ tick_ok' = r.success
              /\ readded' = readded_after_poll(readded, resp)
    /\ update_ok' = TRUE
    /\ log' = {}
    /\ reloaded' = FALSE
    /\ slept' = 0
    /\ prev_failed' = Failed(posts)
    /\ fetched' = FetchFailed
    /\ UNCHANGED <<config, last_config_update, config_update_interval, user_agent,
                   email, webhook_order, tracked_creators, now, pc, exit_code,
                   creator_vars,
                   dict_vars, legacy_vars>>

\* a minute passes between two calls
ApiAdvance ==
    /\ pc = "api"
    /\ now < MaxApiTime
    /\ now' = now + 1
    /\ op' = "advance"
    /\ update_ok' = TRUE
    /\ log' = {}
    /\ NoPoll
    /\ fetched' = FetchFailed
    /\ readded' = [readded EXCEPT !.served = {}]
    /\ UNCHANGED <<notifier_vars, pc, exit_code, creator_vars,
                   dict_vars, legacy_vars>>

ApiNext == ApiUpdateConfig \/ ApiPoll \/ ApiAdvance

SpecApi == ApiInit /\ [][ApiNext]_vars

(***************************************************************************)
(* One PicartoCreator driven on its own: it is built from a validated      *)
(* creator configuration, reconfigured by validated ones, and asked for    *)
(* POST bodies, in any order.                                              *)
(***************************************************************************)
\* n role pings with the ids 1..n
RoleRun(n) == [i \in 1..n |-> RolePing(StrFlake(i))]

\* the lengths of the runs of role pings: short ones, and the ones around
\* the limit of the 'roles' array
RoleCounts == {1, 2} \cup ((ROLES_ARRAY_MAX - 1)..MaxRoles)

\* n user pings with the ids 1..n
UserRun(n) == [i \in 1..n |-> UserPing(IntFlake(i))]

\* the lengths of the runs of user pings, around the limit of the 'users'
\* array
UserCounts == USERS_ARRAY_MAX..MaxUsers

\* the 'pings' lists of the creator configurations
PingLists ==
    {<<>>,
     <<StrPing("@everyone")>>,
     <<StrPing("everyone"), StrPing("@here")>>,
     <<StrPing("here")>>,
     <<StrPing("@Everyone")>>,
     <<StrPing("EVERYONE"), StrPing("HERE")>>,
     <<StrPing("@everyone"), RolePing(StrFlake(42)), UserPing(IntFlake(7))>>,
     <<RolePing(StrFlake(42)), UserPing(IntFlake(7)), RolePing(StrFlake(42)),
       UserPing(IntFlake(7)), RolePing(StrFlake(99))>>,
     <<StrPing("@here"), UserPing(IntFlake(8)), StrPing("somebody"),
       UserPing(IntFlake(7)), RolePing(StrFlake(42))>>,
     <<OtherPing, StrPing("@everyone"), KeylessPing, RolePing(StrFlake(42))>>,
     <<RolePing(IntFlake(42))>>,
     <<UserPing(StrFlake(7))>>} \cup
    {RoleRun(n) : n \in RoleCounts} \cup
    {UserRun(n) : n \in UserCounts} \cup
    {RoleRun(2) \o UserRun(USERS_ARRAY_MAX + 1),
     RoleRun(ROLES_ARRAY_MAX + 1) \o UserRun(2)}

\* the lists that pass validate_creator_config: Notifier.update_config
\* applies a configuration only when validate_config accepted it
ValidPingLists == {p \in PingLists : validate_creator_config(CreatorCfg(SeqOf(p)))}

\* the configured names of the creator, and the names Picarto reports for it
CreatorNames == {"Foo", "FOO"}

ReportedNames == {"foo"}

CreatorHarnessInit ==
    /\ Notifier_init
    /\ now = 0
    /\ pc = "creator"
    /\ exit_code = 0
    /\ NothingDone
    /\ NoCreatorYet

\* PicartoCreator(c_name, c_config)
CreatorNew ==
    /\ pc = "creator"
    /\ creator = <<>>
    /\ \E name \in CreatorNames, pings \in ValidPingLists :
          /\ creator' = <<Creator_init(name, CreatorCfg(SeqOf(pings)))>>
          /\ ping_list' = pings
    /\ op' = "creator_init"
    /\ replaced' = <<>>
    /\ content' = <<>>
    /\ allowed_mentions' = <<>>
    /\ UNCHANGED <<notifier_vars, now, pc, exit_code, update_ok, log, reloaded,
                   response, posts, tick_ok, slept, prev_failed, fetched, readded,
                   dict_vars, legacy_vars>>

\* creator.update_config(c_name, c_config)
CreatorUpdateConfig ==
    /\ pc = "creator"
    /\ creator # <<>>
    /\ \E name \in CreatorNames, pings \in ValidPingLists :
          /\ creator' = <<Creator_update_config(creator[1], name, CreatorCfg(SeqOf(pings)))>>
          /\ ping_list' = pings
    /\ op' = "creator_update_config"
    /\ replaced' = <<Mentions(creator[1])>>
    /\ content' = <<>>
    /\ allowed_mentions' = <<>>
    /\ UNCHANGED <<notifier_vars, now, pc, exit_code, update_ok, log, reloaded,
                   response, posts, tick_ok, slept, prev_failed, fetched, readded,
                   dict_vars, legacy_vars>>

\* the POST body built from the record that took the reported name
post_json(self, order) ==
    [self |-> self,
     content |-> [pings |-> Creator_create_message_content(self, order),
                  name |-> Creator_name(self)],
     allowed_mentions |-> Creator_create_allowed_mentions_dict(self, order)]

\* creator.create_webhook_post_json(c_data)
CreatorPost ==
    /\ pc = "creator"
    /\ creator # <<>>
    /\ \E data_name \in ReportedNames, order \in SetOrders :
          \E r \in {post_json(Creator_observe(creator[1], data_name), order)} :
              /\ creator' = <<r.self>>
              /\ content' = <<r.content>>
              /\ allowed_mentions' = <<r.allowed_mentions>>
    /\ op' = "create_post"
    /\ UNCHANGED <<notifier_vars, now, pc, exit_code, update_ok, log, reloaded,
                   response, posts, tick_ok, slept, prev_failed, fetched,
                   ping_list, replaced, readded,
                   dict_vars, legacy_vars>>

CreatorNext == CreatorNew \/ CreatorUpdateConfig \/ CreatorPost

SpecCreator == CreatorHarnessInit /\ [][CreatorNext]_vars

(***************************************************************************)
(* CaselessDict of structures.py.  _store is a function from the           *)
(* case-folded key to [key, value], the original-case key and the value.   *)
(* The insertion order of the dict decides only the order of iteration,    *)
(* which is left out.                                                      *)
(***************************************************************************)
\* __setitem__ filing the entry under the key as given
CaselessDict_setitem_cased(self, key, value) ==
    Put(self, key, [key |-> key, value |-> value])

\* __setitem__
CaselessDict_setitem(self, key, value) ==
    Put(self, Casefold(key), [key |-> key, value |-> value])

\* __getitem__: [raised, value]; a missing key raises KeyError
CaselessDict_getitem(self, key) ==
    IF Casefold(key) \in DOMAIN self
    THEN [raised |-> FALSE, value |-> self[Casefold(key)].value]
    ELSE [raised |-> TRUE, value |-> ""]

\* __delitem__: [raised, self]; a missing key raises KeyError
CaselessDict_delitem(self, key) ==
    IF Casefold(key) \in DOMAIN self
    THEN [raised |-> FALSE, self |-> Pop(self, Casefold(key))]
    ELSE [raised |-> TRUE, self |-> self]

\* __len__
CaselessDict_len(self) == Cardinality(DOMAIN self)

\* __iter__: the original-case keys
CaselessDict_iter(self) == {self[f].key : f \in DOMAIN self}

\* items_caseless, as a dict
CaselessDict_items_caseless(self) == [f \in DOMAIN self |-> self[f].value]

\* CaselessDict(m) for a mapping m, given as its items in iteration order:
\* MutableMapping.update sets each in turn
RECURSIVE CaselessDict_update(_, _, _)
CaselessDict_update(self, m, i) ==
    IF i > Len(m) THEN self
    ELSE CaselessDict_update(CaselessDict_setitem(self, m[i][1], m[i][2]), m, i + 1)

CaselessDict_init(m) == CaselessDict_update(EmptyDict, m, 1)

\* __eq__ with a Mapping
CaselessDict_eq(self, m) ==
    CaselessDict_items_caseless(self) =
        CaselessDict_items_caseless(CaselessDict_init(m))

\* the keys and the values given to the dict
DictKeys == {"Foo", "FOO", "foo", "Bar"}

DictValues == {"x", "y"}

\* the mappings the dict is compared with: the items of a plain dict
OtherMappings ==
    {<<>>,
     <<<<"foo", "x">>>>,
     <<<<"FOO", "y">>>>,
     <<<<"Foo", "x">>, <<"Bar", "y">>>>,
     <<<<"bar", "y">>, <<"FOO", "x">>>>,
     <<<<"Foo", "x">>, <<"FOO", "y">>>>,
     <<<<"Bar", "x">>>>}

\* the original-case key the store holds for the key, "" when it holds none
StoredKey(self, key) ==
    IF \E k \in CaselessDict_iter(self) : Casefold(k) = Casefold(key)
    THEN CHOOSE k \in CaselessDict_iter(self) : Casefold(k) = Casefold(key)
    ELSE ""

DictHarnessInit ==
    /\ Notifier_init
    /\ now = 0
    /\ pc = "dict"
    /\ exit_code = 0
    /\ NothingDone
    /\ NoCreatorYet

\* d[key] = value
DictSetItem ==
    /\ pc = "dict"
    /\ \E key \in DictKeys, value \in DictValues :
          /\ store' = CaselessDict_setitem(store, key, value)
          /\ arg' = [key |-> key, value |-> value, was |-> StoredKey(store, key)]
    /\ got' = "None"
    /\ op' = "dict_set"
    /\ UNCHANGED <<main_vars, other, legacy_vars>>

\* d[key]
DictGetItem ==
    /\ pc = "dict"
    /\ \E key \in DictKeys :
          \E r \in {CaselessDict_getitem(store, key)} :
              /\ got' = IF r.raised THEN "KeyError" ELSE r.value
              /\ arg' = [key |-> key, value |-> "", was |-> StoredKey(store, key)]
    /\ op' = "dict_get"
    /\ UNCHANGED <<main_vars, store, other, legacy_vars>>

\* del d[key]
DictDelItem ==
    /\ pc = "dict"
    /\ \E key \in DictKeys :
          \E r \in {CaselessDict_delitem(store, key)} :
              /\ store' = r.self
              /\ got' = IF r.raised THEN "KeyError" ELSE "None"
              /\ arg' = [key |-> key, value |-> "", was |-> StoredKey(store, key)]
    /\ op' = "dict_del"
    /\ UNCHANGED <<main_vars, other, legacy_vars>>

\* d == m
DictEq ==
    /\ pc = "dict"
    /\ \E m \in OtherMappings :
          /\ other' = m
          /\ got' = IF CaselessDict_eq(store, m) THEN "True" ELSE "False"
    /\ arg' = [key |-> "", value |-> "", was |-> ""]
    /\ op' = "dict_eq"
    /\ UNCHANGED <<main_vars, store, legacy_vars>>

DictNext == DictSetItem \/ DictGetItem \/ DictDelItem \/ DictEq

SpecDict == DictHarnessInit /\ [][DictNext]_vars

(***************************************************************************)
(* The legacy script picartonotif.py: one DiscordServer, its creators      *)
(* added at start-up, and the calls of update_online_creators made by the  *)
(* polling loop.                                                           *)
(***************************************************************************)
\* str.lower on the creator names the model uses
NameLower(n) ==
    CASE n \in {"Foo", "FOO", "foo"} -> "foo"
      [] n \in {"Bar", "BAR", "bar"} -> "bar"
      [] n \in {"Baz", "baz"} -> "baz"
      [] n \in {"Qux", "qux"} -> "qux"
      [] OTHER -> n

\* DiscordServer.add_creator: the ids of _creators in insertion order
add_creator(ids, creatorName) ==
    IF \E i \in 1..Len(ids) : ids[i] = NameLower(creatorName)
    THEN ids
    ELSE Append(ids, NameLower(creatorName))

\* the loop over serverCreators at start-up
RECURSIVE add_creators(_, _, _)
add_creators(names, i, ids) ==
    IF i > Len(names) THEN ids
    ELSE add_creators(names, i + 1, add_creator(ids, names[i]))

\* the creator names configured for the server
ServerNames == <<"Foo", "Bar", "baz", "FOO">>

ServerCreators == add_creators(ServerNames, 1, <<>>)

\* the seen list without the creators that are no longer online
prune_offline(seenCreators, onlineCreators) ==
    SelectSeq(seenCreators,
              LAMBDA id : \E i \in 1..Len(onlineCreators) : onlineCreators[i] = id)

\* seen_after_post that does not record the creator
seen_after_post_forgetting(seenCreators, id) == seenCreators

\* the seen list after a POST that did not raise
seen_after_post(seenCreators, id) == Append(seenCreators, id)

\* the loop over self._creators.values() from the i-th creator on; st is
\* [seen, posts, raised]; a POST that raises ends the call
RECURSIVE announce(_, _, _, _, _)
announce(creators, i, st, onlineCreators, failing) ==
    IF i > Len(creators) THEN st
    ELSE IF /\ \A j \in 1..Len(st.seen) : st.seen[j] # creators[i]
            /\ \E j \in 1..Len(onlineCreators) : onlineCreators[j] = creators[i]
         THEN IF creators[i] \in failing
              THEN [st EXCEPT !.posts = Append(@, [c |-> creators[i], ok |-> FALSE]),
                              !.raised = TRUE]
              ELSE announce(creators, i + 1,
                       [st EXCEPT !.posts = Append(@, [c |-> creators[i], ok |-> TRUE]),
                                  !.seen = seen_after_post(@, creators[i])],
                       onlineCreators, failing)
         ELSE announce(creators, i + 1, st, onlineCreators, failing)

\* DiscordServer.update_online_creators
update_online_creators(seenCreators, onlineCreators, failing) ==
    announce(ServerCreators, 1,
        [seen |-> prune_offline(seenCreators, onlineCreators),
         posts |-> <<>>, raised |-> FALSE],
        onlineCreators, failing)

\* the onlineCreators list the polling loop builds from the reported names
lowered(names) == [i \in 1..Len(names) |-> NameLower(names[i])]

\* the names Picarto reports online in one poll
OnlineReports ==
    {<<>>, <<"Foo">>, <<"BAR">>, <<"Baz">>, <<"Qux">>,
     <<"Foo", "BAR">>, <<"Baz", "Foo">>, <<"BAR", "Baz">>, <<"Qux", "Foo">>,
     <<"Foo", "BAR", "Baz">>, <<"foo", "FOO", "Qux">>}

\* the creators whose POST raises in one call
LegacyFailSets == {{}, {"foo"}, {"bar"}}

LegacyInit ==
    /\ Notifier_init
    /\ now = 0
    /\ pc = "legacy"
    /\ exit_code = 0
    /\ NothingDone
    /\ NoCreatorYet

\* a pass of the polling loop whose fetch succeeded
LegacyUpdate ==
    /\ pc = "legacy"
    /\ \E names \in OnlineReports, failing \in LegacyFailSets :
          \E r \in {update_online_creators(seen, lowered(names), failing)} :
              /\ seen' = r.seen
              /\ online' = lowered(names)
              /\ legacy_posts' = r.posts
              /\ post_failed' = (post_failed \/ r.raised)
    /\ op' = "legacy_update"
    /\ UNCHANGED <<main_vars, dict_vars>>

\* a pass of the polling loop whose fetch failed: no server is updated
LegacySkip ==
    /\ pc = "legacy"
    /\ op' = "legacy_skip"
    /\ legacy_posts' = <<>>
    /\ UNCHANGED <<main_vars, dict_vars, seen, online, post_failed>>

LegacyNext == LegacyUpdate \/ LegacySkip

SpecLegacy == LegacyInit /\ [][LegacyNext]_vars

(***************************************************************************)
(* The claims.                                                             *)
(***************************************************************************)
\* the names of the structurally valid entries of a liveness response
ValidNames(resp) ==
    IF resp.t # "seq" THEN {}
    ELSE {resp.items[i].name.s :
             i \in {j \in 1..Len(resp.items) :
                       resp.items[j].t = "map" /\ resp.items[j].name.t = "str"}}

\* the creator key k is reported live by the response
IsOnline(resp, k) == \E n \in ValidNames(resp) : Casefold(n) = Casefold(k)

\* the number of POSTs of `ps` for creator c on webhook w
PostCount(ps, w, c) == Cardinality({i \in 1..Len(ps) : ps[i].w = w /\ ps[i].c = c})

\* the clock when the last tick began
TickTime == now - slept

\* the webhook items of a document whose name folds to the key w
EntriesFor(cfg, w) ==
    {i \in 1..Len(cfg.webhooks.items) : Casefold(cfg.webhooks.items[i].name) = Casefold(w)}

\* the i-th webhook item of the document lists a creator whose name folds to k
EntryLists(cfg, i, k) ==
    \E j \in 1..Len(cfg.webhooks.items[i].cfg.creators.items) :
        Casefold(cfg.webhooks.items[i].cfg.creators.items[j].name) = Casefold(k)

\* the creator list that ends up applied to webhook w omits k
LastEntryOmits(cfg, w, k) ==
    /\ EntriesFor(cfg, w) # {}
    /\ \E i \in EntriesFor(cfg, w) :
          /\ \A j \in EntriesFor(cfg, w) : j <= i
          /\ ~EntryLists(cfg, i, k)

\* every creator list applied to webhook w lists k
EveryEntryLists(cfg, w, k) ==
    /\ EntriesFor(cfg, w) # {}
    /\ \A i \in EntriesFor(cfg, w) : EntryLists(cfg, i, k)

\* the timer of creator k on webhook w is the same before and after the step
TimerKept(w, k) ==
    /\ w \in DOMAIN webhooks'
    /\ (k \in DOMAIN webhooks[w].last_notified) <=>
           (k \in DOMAIN webhooks'[w].last_notified)
    /\ k \in DOMAIN webhooks[w].last_notified =>
           webhooks'[w].last_notified[k] = webhooks[w].last_notified[k]

\* C1: a notify cycle that runs NOTIFY_INTERVAL or more after the last
\* successful notification of a tracked creator, with that creator in the
\* online map, attempts a POST for it.
C1_RenotifyAfterCooldown ==
    [][(op' = "tick" /\ ~reloaded' /\ response'.t = "seq") =>
        \A w \in DOMAIN webhooks : \A k \in DOMAIN webhooks[w].creators :
            (/\ k \in DOMAIN webhooks[w].last_notified
             /\ IsOnline(response', k)
             /\ now - webhooks[w].last_notified[k] >= NOTIFY_INTERVAL)
            => <<w, k>> \in Attempted(posts')]_vars

\* C2: no POST is attempted for a (webhook, creator) pair less than
\* NOTIFY_INTERVAL after the pair's last successful POST, so two successful
\* POSTs for a pair are never closer than that.
C2_CooldownSuppression ==
    [][op' = "tick" =>
        \A i \in 1..Len(posts') :
            /\ posts'[i].w \in DOMAIN webhooks
            /\ posts'[i].c \in DOMAIN webhooks[posts'[i].w].last_notified =>
                   now - webhooks[posts'[i].w].last_notified[posts'[i].c]
                       >= NOTIFY_INTERVAL]_vars

\* a tick in which an online, tracked creator notified less than
\* NOTIFY_INTERVAL before got no POST
C2_Witness ==
    /\ op = "tick"
    /\ \E w \in DOMAIN webhooks : \E k \in DOMAIN webhooks[w].creators :
          /\ IsOnline(response, k)
          /\ k \in DOMAIN webhooks[w].last_notified
          /\ TickTime - webhooks[w].last_notified[k] > 0
          /\ TickTime - webhooks[w].last_notified[k] < NOTIFY_INTERVAL
          /\ <<w, k>> \notin Attempted(posts)

\* C3: in a notify cycle, every online entry whose case-folded name is a
\* key the webhook tracks and that has no last-notified record gets exactly
\* one POST, whatever the casing of the reported name.
C3_FirstNotification ==
    [][(op' = "tick" /\ ~reloaded' /\ response'.t = "seq") =>
        \A w \in DOMAIN webhooks : \A k \in DOMAIN webhooks[w].creators :
            (IsOnline(response', k) /\ k \notin DOMAIN webhooks[w].last_notified)
            => PostCount(posts', w, k) = 1]_vars

\* the first tick posted once for a creator the liveness API reports in
\* another casing than the configured one
C3_Witness ==
    /\ op = "tick"
    /\ TickTime = 0
    /\ \E i \in 1..Len(posts) :
          /\ PostCount(posts, posts[i].w, posts[i].c) = 1
          /\ webhooks[posts[i].w].creators[posts[i].c].actual_name
                 # webhooks[posts[i].w].creators[posts[i].c].name
          /\ webhooks[posts[i].w].creators[posts[i].c].actual_name \in ValidNames(response)

\* C4: a failed POST leaves last_notified of the creator as it was (absent
\* stays absent), and the next poll cycle in which the creator is still
\* online attempts the POST again.
C4_FailureKeepsTimer ==
    [][op' = "tick" =>
        /\ \A i \in 1..Len(posts') :
               ~posts'[i].ok => TimerKept(posts'[i].w, posts'[i].c)
        /\ (op = "tick" /\ response'.t = "seq") =>
               \A p \in Failed(posts) :
                   (/\ p[1] \in DOMAIN webhooks
                    /\ p[2] \in DOMAIN webhooks[p[1]].creators
                    /\ IsOnline(response', p[2]))
                   => p \in Attempted(posts')]_vars

\* a POST that failed in the tick before is attempted again and fails again,
\* and the creator still has no timer
C4_Witness ==
    /\ op = "tick"
    /\ \E p \in prev_failed \cap Failed(posts) :
          p[2] \notin DOMAIN webhooks[p[1]].last_notified

\* C5: a failed POST changes nothing in which POSTs the tick attempts: the
\* remaining creators of the webhook and the remaining webhooks get the
\* attempts they get when no POST fails.
C5_FailureIsolation ==
    [][(op' = "tick" /\ ~reloaded') =>
        Attempted(posts') = Attempted(poll(Self, response', now, {}).posts)]_vars

\* a tick in which a POST failed, a later creator of the same webhook was
\* posted for, and so was a creator of a later webhook
C5_Witness ==
    /\ op = "tick"
    /\ \E i, j, k \in 1..Len(posts) :
          /\ i < j /\ j < k
          /\ ~posts[i].ok
          /\ posts[j].w = posts[i].w
          /\ posts[k].w # posts[i].w

\* C6: a tick that starts when more than the config-refresh interval has
\* passed since the last successful fetch calls update_config.
C6_PeriodicReload ==
    [][(op' = "tick" /\ now - last_config_update > config_update_interval)
        => reloaded']_vars

\* C7: a failed update_config changes nothing but the config-refresh
\* interval, which becomes the error-backoff value.
C7_RejectedConfigChangesNothing ==
    [][(op' = "update_config" /\ ~update_ok') =>
        /\ UNCHANGED <<config, last_config_update, user_agent, email,
                       webhooks, webhook_order, tracked_creators>>
        /\ config_update_interval' = CONFIG_UPDATE_INTERVAL_ERROR]_vars

\* a configuration was rejected while webhooks with timers were in place
C7_Witness ==
    /\ op = "update_config"
    /\ ~update_ok
    /\ config # <<>>
    /\ config_update_interval = CONFIG_UPDATE_INTERVAL_ERROR
    /\ \E w \in DOMAIN webhooks : DOMAIN webhooks[w].last_notified # {}

\* C8: when the creator list applied to a webhook omits a tracked key, the
\* key leaves the creator map and the last_notified map; and a notify
\* cycle attempts POSTs for tracked keys only.
C8_RemovalPropagates ==
    [][/\ (op' = "update_config" /\ update_ok') =>
              \A w \in DOMAIN webhooks : \A k \in DOMAIN webhooks[w].creators :
                  LastEntryOmits(config'[1], w, k) =>
                      /\ w \in DOMAIN webhooks'
                      /\ k \notin DOMAIN webhooks'[w].creators
                      /\ k \notin DOMAIN webhooks'[w].last_notified
       /\ op' = "poll" =>
              \A i \in 1..Len(posts') :
                  /\ posts'[i].w \in DOMAIN webhooks
                  /\ posts'[i].c \in DOMAIN webhooks[posts'[i].w].creators]_vars

\* a reconfiguration removed a creator that had a timer
C8_Witness ==
    /\ op = "update_config"
    /\ update_ok
    /\ \E w \in DOMAIN webhooks : \E k \in {"foo", "bar"} :
          /\ Ev("creator_removed", w, k) \in log
          /\ Ev("timer_removed", w, k) \in log
          /\ LastEntryOmits(config[1], w, k)
          /\ k \notin DOMAIN webhooks[w].creators
          /\ k \notin DOMAIN webhooks[w].last_notified

\* the log events of a reconfiguration that created or removed a record
Churn(events) ==
    {e \in events : e.ev \in {"webhook_added", "webhook_removed",
                              "creator_added", "creator_removed"}}

\* C9: applying the configuration that is already applied creates and
\* removes nothing and leaves every creator key set, mention set and
\* last_notified timestamp as it was.
C9_IdempotentReconfiguration ==
    [][(op' = "update_config" /\ update_ok' /\ config' = config) =>
        /\ Churn(log') = {}
        /\ DOMAIN webhooks' = DOMAIN webhooks
        /\ \A w \in DOMAIN webhooks :
               /\ DOMAIN webhooks'[w].creators = DOMAIN webhooks[w].creators
               /\ \A k \in DOMAIN webhooks[w].creators :
                      Mentions(webhooks'[w].creators[k]) = Mentions(webhooks[w].creators[k])
               /\ webhooks'[w].last_notified = webhooks[w].last_notified]_vars

DocumentedPing(p) ==
    \/ p.t = "str" /\ p.s \in {"@everyone", "everyone", "@here", "here"}
    \/ /\ p.t = "dict"
       /\ (p.role.t = "missing") # (p.user.t = "missing")
       /\ p.role.t \in {"missing", "int", "str"}
       /\ p.user.t \in {"missing", "int", "str"}

\* a document with the required keys and types and documented pings only
DocumentedConfig(cfg) ==
    /\ cfg.user_agent.t = "str"
    /\ cfg.email.t = "str"
    /\ cfg.webhooks.t = "map"
    /\ \A i \in 1..Len(cfg.webhooks.items) :
          /\ cfg.webhooks.items[i].cfg.url.t = "str"
          /\ cfg.webhooks.items[i].cfg.creators.t = "map"
          /\ \A j \in 1..Len(cfg.webhooks.items[i].cfg.creators.items) :
                /\ cfg.webhooks.items[i].cfg.creators.items[j].cfg.pings.t = "seq"
                /\ \A k \in 1..Len(cfg.webhooks.items[i].cfg.creators.items[j].cfg.pings.items) :
                      DocumentedPing(
                          cfg.webhooks.items[i].cfg.creators.items[j].cfg.pings.items[k])

\* C11: update_config accepts and applies every fetched document that has
\* the required keys and types and whose pings are broadcast strings or
\* {role: id} / {user: id} with an integer or a string id.
C11_ValidationAcceptsBothIdForms ==
    [][(/\ op' = "update_config"
        /\ fetched' # FetchFailed
        /\ DocumentedConfig(fetched'[1]))
       => (update_ok' /\ config' = fetched')]_vars

\* the elements of a sequence
Range(seq) == {seq[i] : i \in 1..Len(seq)}

\* C12: a POST body built for a creator with n role ids carries an
\* explicit 'roles' list of exactly those n ids and no 'roles' in 'parse'
\* when 1 <= n <= 100, and 'roles' in 'parse' and no 'roles' list when
\* n > 100.
C12_RoleMentionCap ==
    op = "create_post" =>
        /\ (/\ Cardinality(creator[1].ping_roles) >= 1
            /\ Cardinality(creator[1].ping_roles) <= 100) =>
               /\ "roles" \in allowed_mentions[1].keys
               /\ Len(allowed_mentions[1].roles) = Cardinality(creator[1].ping_roles)
               /\ Range(allowed_mentions[1].roles) = creator[1].ping_roles
               /\ "roles" \notin Range(allowed_mentions[1].parse)
        /\ Cardinality(creator[1].ping_roles) > 100 =>
               /\ "roles" \in Range(allowed_mentions[1].parse)
               /\ "roles" \notin allowed_mentions[1].keys

\* a POST body was built for a creator with exactly 100 role ids, and it
\* lists them
C12_Witness ==
    /\ op = "create_post"
    /\ Cardinality(creator[1].ping_roles) = 100
    /\ Len(allowed_mentions[1].roles) = 100
    /\ "roles" \notin Range(allowed_mentions[1].parse)

\* str.lower on the broadcast strings the model uses
Lower(str) ==
    CASE str \in {"@everyone", "@Everyone"} -> "@everyone"
      [] str \in {"everyone", "EVERYONE"} -> "everyone"
      [] str \in {"@here"} -> "@here"
      [] str \in {"here", "HERE"} -> "here"
      [] OTHER -> str

\* the ping list names Everyone, or Here, in whatever case
ListsEveryone(pings) ==
    \E i \in 1..Len(pings) :
        pings[i].t = "str" /\ Lower(pings[i].s) \in {"@everyone", "everyone"}

ListsHere(pings) ==
    \E i \in 1..Len(pings) :
        pings[i].t = "str" /\ Lower(pings[i].s) \in {"@here", "here"}

\* the role ids and the user ids a ping list names
ListedRoles(pings) ==
    {pings[i].role : i \in {j \in 1..Len(pings) :
                               pings[j].t = "dict" /\ pings[j].role.t # "missing"}}

ListedUsers(pings) ==
    {pings[i].user : i \in {j \in 1..Len(pings) :
                               pings[j].t = "dict" /\ pings[j].user.t # "missing"}}

\* C13: after a ping list is parsed, the Everyone flag is set when the list
\* holds a string equal to '@everyone' or 'everyone' in whatever case, and
\* the Here flag when it holds one equal to '@here' or 'here'.
C13_CaseInsensitiveBroadcast ==
    op \in {"creator_init", "creator_update_config"} =>
        /\ ListsEveryone(ping_list) => creator[1].ping_everyone
        /\ ListsHere(ping_list) => creator[1].ping_here

\* the number of tokens of a kind in a mention string
TokenCount(tokens, kind) == Cardinality({i \in 1..Len(tokens) : tokens[i].kind = kind})

\* the place of a kind of token in the mention string
KindRank(kind) ==
    CASE kind = "everyone" -> 1 [] kind = "here" -> 2 [] kind = "role" -> 3 [] OTHER -> 4

\* the ids of the tokens of a kind
TokenFlakes(tokens, kind) ==
    {tokens[i].flake : i \in {j \in 1..Len(tokens) : tokens[j].kind = kind}}

\* C14: the mention string rendered from a parsed ping list holds the
\* Everyone token iff Everyone was listed, the Here token iff Here was
\* listed, one role token per distinct listed role id and one user token
\* per distinct listed user id, in the order Everyone, Here, roles, users.
C14_PingRoundTrip ==
    op = "create_post" =>
        /\ TokenCount(content[1].pings, "everyone") =
               (IF ListsEveryone(ping_list) THEN 1 ELSE 0)
        /\ TokenCount(content[1].pings, "here") =
               (IF ListsHere(ping_list) THEN 1 ELSE 0)
        /\ TokenFlakes(content[1].pings, "role") = ListedRoles(ping_list)
        /\ TokenCount(content[1].pings, "role") = Cardinality(ListedRoles(ping_list))
        /\ TokenFlakes(content[1].pings, "user") = ListedUsers(ping_list)
        /\ TokenCount(content[1].pings, "user") = Cardinality(ListedUsers(ping_list))
        /\ \A i, j \in 1..Len(content[1].pings) :
               i < j => KindRank(content[1].pings[i].kind)
                            <= KindRank(content[1].pings[j].kind)

\* the entry of a liveness response is one that reaches the online map
WellFormedEntry(e) == e.t = "map" /\ e.name.t = "str"

\* the response with its malformed entries left out
ValidOnly(resp) == SeqOf(SelectSeq(resp.items, WellFormedEntry))

\* the response is a sequence with a malformed entry in it
HasMalformed(resp) ==
    /\ resp.t = "seq"
    /\ \E i \in 1..Len(resp.items) : ~WellFormedEntry(resp.items[i])

\* C15: when the liveness response is a sequence with a malformed entry,
\* the tick attempts the POSTs it attempts for the well-formed entries
\* alone, is marked failed, and the loop goes on.
C15_MalformedEntrySkipped ==
    [][(op' = "tick" /\ HasMalformed(response')) =>
        /\ Attempted(posts') = Attempted(poll(Self, ValidOnly(response'), now, {}).posts)
        /\ ~tick_ok'
        /\ pc' = "loop"]_vars

\* a tick read a malformed entry and posted for an entry that follows it
C15_Witness ==
    /\ op = "tick"
    /\ pc = "loop"
    /\ ~tick_ok
    /\ HasMalformed(response)
    /\ \E i, j \in 1..Len(response.items) :
          /\ i < j
          /\ ~WellFormedEntry(response.items[i])
          /\ WellFormedEntry(response.items[j])
          /\ \E p \in Attempted(posts) : p[2] = Casefold(response.items[j].name.s)

\* C16: when the first update_config of run fails, the process exits with
\* a non-zero status, and nothing happens after: no tick, no liveness
\* fetch, no POST.
C16_FatalInitialConfiguration ==
    [][/\ pc # "exited"
       /\ (pc = "start" /\ ~update_ok') =>
              /\ pc' = "exited"
              /\ exit_code' # 0
              /\ op' = "update_config"
              /\ posts' = <<>>]_vars

\* the process exited on a first configuration that was fetched and rejected
C16_Witness ==
    /\ pc = "exited"
    /\ exit_code # 0
    /\ op = "update_config"
    /\ ~update_ok
    /\ fetched # FetchFailed
    /\ posts = <<>>
    /\ config = <<>>

\* C17: a tick whose liveness fetch fails, or whose response is no
\* sequence, attempts no POST, changes no webhook, creator or timer, is
\* marked failed, and the loop goes on.
C17_PollFailureHarmless ==
    [][(op' = "tick" /\ response'.t # "seq") =>
        /\ posts' = <<>>
        /\ webhooks' = webhooks
        /\ ~tick_ok'
        /\ pc' = "loop"]_vars

\* a tick got a response that is no sequence while a tracked creator that
\* the response wraps was due a notification
C17_Witness ==
    /\ op = "tick"
    /\ pc = "loop"
    /\ response = ResponseNotSequence
    /\ posts = <<>>
    /\ \E w \in DOMAIN webhooks :
          /\ "foo" \in DOMAIN webhooks[w].creators
          /\ "foo" \notin DOMAIN webhooks[w].last_notified

\* C18: in every state the keys of a webhook's last_notified are keys of
\* its creator map.
C18_NoOrphanedTimers ==
    \A w \in DOMAIN webhooks :
        DOMAIN webhooks[w].last_notified \subseteq DOMAIN webhooks[w].creators

\* a reconfiguration removed a creator and its timer from a webhook that
\* keeps another timer
C18_Witness ==
    /\ op = "update_config"
    /\ update_ok
    /\ \E w \in DOMAIN webhooks :
          /\ \E k \in {"foo", "bar"} : Ev("timer_removed", w, k) \in log
          /\ DOMAIN webhooks[w].last_notified # {}

\* C19: a tick sleeps 3 minutes iff the liveness response was a sequence
\* of well-formed entries and no POST failed; otherwise it sleeps 1 minute.
C19_PollIntervalSelection ==
    [][op' = "tick" =>
        /\ slept' = 3 <=>
               (/\ response'.t = "seq"
                /\ ~HasMalformed(response')
                /\ Failed(posts') = {})
        /\ slept' \in {1, 3}
        /\ now' = now + slept']_vars

\* a tick with a well-formed response slept 1 minute because a POST failed
C19_Witness ==
    /\ op = "tick"
    /\ response.t = "seq"
    /\ ~HasMalformed(response)
    /\ Failed(posts) # {}
    /\ slept = 1

\* C20: after update_config on an existing record, the flags and the id
\* sets are those of a record built from the new ping list alone, and hold
\* nothing the new list does not name.
C20_MentionSetReplaces ==
    [][op' = "creator_update_config" =>
        /\ Mentions(creator'[1]) =
               Mentions(Creator_init("Foo", CreatorCfg(SeqOf(ping_list'))))
        /\ creator'[1].ping_roles \subseteq ListedRoles(ping_list')
        /\ creator'[1].ping_users \subseteq ListedUsers(ping_list')
        /\ creator'[1].ping_everyone => ListsEveryone(ping_list')
        /\ creator'[1].ping_here => ListsHere(ping_list')]_vars

\* an empty ping list replaced a mention set with a flag and ids in it
C20_Witness ==
    /\ op = "creator_update_config"
    /\ ping_list = <<>>
    /\ replaced # <<>>
    /\ replaced[1][1]
    /\ replaced[1][3] # {}
    /\ replaced[1][4] # {}
    /\ Mentions(creator[1]) = <<FALSE, FALSE, {}, {}>>

\* C21: a POST body built for a creator with n user ids carries an
\* explicit 'users' list of exactly those n ids and no 'users' in 'parse'
\* when 1 <= n <= 100, and 'users' in 'parse' and no 'users' list when
\* n > 100, whatever the number of role ids.
C21_UserMentionCap ==
    op = "create_post" =>
        /\ (/\ Cardinality(creator[1].ping_users) >= 1
            /\ Cardinality(creator[1].ping_users) <= 100) =>
               /\ "users" \in allowed_mentions[1].keys
               /\ Len(allowed_mentions[1].users) = Cardinality(creator[1].ping_users)
               /\ Range(allowed_mentions[1].users) = creator[1].ping_users
               /\ "users" \notin Range(allowed_mentions[1].parse)
        /\ Cardinality(creator[1].ping_users) > 100 =>
               /\ "users" \in Range(allowed_mentions[1].parse)
               /\ "users" \notin allowed_mentions[1].keys

\* the greatest element of a non-empty set of numbers
Last(S) == CHOOSE i \in S : \A j \in S : j <= i

\* the positions of the creator list of the i-th webhook item whose name
\* folds to k
SpelledAt(cfg, i, k) ==
    {j \in 1..Len(cfg.webhooks.items[i].cfg.creators.items) :
        Casefold(cfg.webhooks.items[i].cfg.creators.items[j].name) = Casefold(k)}

\* the name under which the creator list that ends up applied to webhook w
\* spells creator k: no name when that list omits k
LastSpellings(cfg, w, k) ==
    IF EntriesFor(cfg, w) = {} \/ SpelledAt(cfg, Last(EntriesFor(cfg, w)), k) = {}
    THEN {}
    ELSE {cfg.webhooks.items[Last(EntriesFor(cfg, w))].cfg.creators.items[
              Last(SpelledAt(cfg, Last(EntriesFor(cfg, w)), k))].name}

\* C22: when a reconfiguration spells an existing creator of a webhook
\* under a name that folds to the same key, the record stays under that key
\* and its configured name becomes the new spelling.
C22_CaseOnlyRename ==
    [][(op' = "update_config" /\ update_ok') =>
        \A w \in DOMAIN webhooks : \A k \in DOMAIN webhooks[w].creators :
            \A n \in LastSpellings(config'[1], w, k) :
                /\ w \in DOMAIN webhooks'
                /\ k \in DOMAIN webhooks'[w].creators
                /\ webhooks'[w].creators[k].name = n]_vars

\* the case-folded webhook names of a document
WebhookKeys(cfg) ==
    {Casefold(cfg.webhooks.items[i].name) : i \in 1..Len(cfg.webhooks.items)}

RecognizedPing(p) ==
    \/ p.t = "str" /\ Lower(p.s) \in {"@everyone", "everyone", "@here", "here"}
    \/ p.t = "dict" /\ (p.role.t # "missing" \/ p.user.t # "missing")

\* the ping list with its unrecognized entries left out
WithoutUnrecognized(pings) == SelectSeq(pings, RecognizedPing)

\* C24: an unrecognized entry does not change what validate_creator_config
\* answers for a ping list, and the mention set of a record built or
\* updated from the list is that of the list without its unrecognized
\* entries.
C24_UnrecognizedPingIgnored ==
    /\ \A p \in PingLists :
           validate_creator_config(CreatorCfg(SeqOf(p))) <=>
               validate_creator_config(CreatorCfg(SeqOf(WithoutUnrecognized(p))))
    /\ op \in {"creator_init", "creator_update_config"} =>
           Mentions(creator[1]) =
               Mentions(Creator_init("Foo",
                   CreatorCfg(SeqOf(WithoutUnrecognized(ping_list)))))

\* a record took a validated list with an unrecognized entry between
\* recognized ones, and holds what the entries after it name
C24_Witness ==
    /\ op = "creator_update_config"
    /\ validate_creator_config(CreatorCfg(SeqOf(ping_list)))
    /\ \E i, j, k \in 1..Len(ping_list) :
          /\ i < j /\ j < k
          /\ RecognizedPing(ping_list[i])
          /\ ~RecognizedPing(ping_list[j])
          /\ ping_list[k].t = "dict"
          /\ ping_list[k].role.t # "missing"
          /\ ping_list[k].role \in creator[1].ping_roles

\* C25: a creator that was notified on a webhook, removed from it by a
\* reconfiguration and listed again by a later one has a record and no
\* last_notified entry there until a poll reports it live, and that poll
\* attempts a POST for it, less than NOTIFY_INTERVAL after the last
\* delivery though it is.
C25_ReaddingResetsCooldown ==
    /\ \A p \in readded.fresh :
           /\ p[1] \in DOMAIN webhooks
           /\ p[2] \in DOMAIN webhooks[p[1]].creators
           /\ p[2] \notin DOMAIN webhooks[p[1]].last_notified
    /\ \A p \in readded.served : p \in Attempted(posts)

\* a poll posted for a creator, live in it, that had been notified, removed
\* and listed again, all within NOTIFY_INTERVAL
C25_Witness ==
    /\ op = "poll"
    /\ now < NOTIFY_INTERVAL
    /\ \E p \in readded.served :
          /\ p \in Attempted(posts)
          /\ p \notin Failed(posts)
          /\ webhooks[p[1]].last_notified[p[2]] = now

\* the value the dict holds under the original-case key k
ValueUnder(self, k) ==
    self[CHOOSE f \in DOMAIN self : self[f].key = k].value

\* the original-case keys of the dict that collide with the key
Colliding(self, key) == {k \in CaselessDict_iter(self) : Casefold(k) = Casefold(key)}

\* the entries of the dict whose keys do not collide with the key
Others(self, key) ==
    {<<k, ValueUnder(self, k)>> : k \in CaselessDict_iter(self) \ Colliding(self, key)}

\* the case-folded keys of a mapping given as its items, with the value of
\* the last item of each
FoldedItems(m) ==
    {<<Casefold(m[i][1]), m[i][2]>> :
        i \in {j \in 1..Len(m) :
                  \A l \in (j + 1)..Len(m) : Casefold(m[l][1]) # Casefold(m[j][1])}}

\* C27: after any sequence of sets and deletes the dict holds at most one
\* entry for keys that collide under case folding; a get or a delete with
\* either key addresses that entry; a set with a colliding key replaces the
\* value and the original-case key and leaves the length as it was; and
\* equality with a mapping compares the case-folded keys and their values.
C27_CaselessDictCollision ==
    [][/\ \A k1, k2 \in CaselessDict_iter(store') :
              Casefold(k1) = Casefold(k2) => k1 = k2
       /\ CaselessDict_len(store') = Cardinality(CaselessDict_iter(store'))
       /\ op' = "dict_get" =>
              /\ \A k \in Colliding(store, arg'.key) : got' = ValueUnder(store, k)
              /\ Colliding(store, arg'.key) = {} => got' = "KeyError"
       /\ op' = "dict_del" =>
              /\ Colliding(store', arg'.key) = {}
              /\ Others(store', arg'.key) = Others(store, arg'.key)
              /\ Colliding(store, arg'.key) = {} <=> got' = "KeyError"
       /\ op' = "dict_set" =>
              /\ Colliding(store', arg'.key) = {arg'.key}
              /\ ValueUnder(store', arg'.key) = arg'.value
              /\ Others(store', arg'.key) = Others(store, arg'.key)
              /\ Colliding(store, arg'.key) # {} =>
                     CaselessDict_len(store') = CaselessDict_len(store)
       /\ op' = "dict_eq" =>
              (got' = "True" <=>
                  {<<Casefold(k), ValueUnder(store, k)>> : k \in CaselessDict_iter(store)}
                      = FoldedItems(other'))]_vars

\* a set with a key replaced the entry stored under a colliding key of
\* another case, beside an entry that does not collide
C27_Witness ==
    /\ op = "dict_set"
    /\ arg.was # ""
    /\ arg.was # arg.key
    /\ Casefold(arg.was) = Casefold(arg.key)
    /\ arg.key \in CaselessDict_iter(store)
    /\ arg.was \notin CaselessDict_iter(store)
    /\ CaselessDict_len(store) = 2

\* the creators a list of POSTs was made for
Posted(ps) == {ps[i].c : i \in 1..Len(ps)}

\* C26: as long as no POST raised, a call of update_online_creators posts
\* for a tracked creator iff it is in the online list and was not in the
\* seen list, once at most; a creator online at the call before and at this
\* one gets no POST; and the seen list holds only tracked creators of the
\* online list.
C26_OncePerGoingLive ==
    [][(op' = "legacy_update" /\ ~post_failed') =>
        /\ \A c \in Range(ServerCreators) :
               /\ c \in Posted(legacy_posts') <=>
                      (c \in Range(online') /\ c \notin Range(seen))
               /\ (c \in Range(online) /\ c \in Range(online')) =>
                      c \notin Posted(legacy_posts')
               /\ Cardinality({i \in 1..Len(legacy_posts') : legacy_posts'[i].c = c}) <= 1
        /\ Posted(legacy_posts') \subseteq Range(ServerCreators)
        /\ Range(seen') \subseteq Range(ServerCreators) \cap Range(online')]_vars

\* a call posted for a creator that came online and not for one that
\* stayed online, while an untracked one was online too
C26_Witness ==
    /\ op = "legacy_update"
    /\ ~post_failed
    /\ Len(seen) = 2
    /\ \E c \in Range(seen) : c \notin Posted(legacy_posts)
    /\ \E c \in Range(seen) : c \in Posted(legacy_posts)
    /\ Range(seen) \subseteq Range(online)

====
